---- MODULE Spec2Model ----
(***************************************************************************)
(* One run of either plotting script, src/グラフ1.py (script 1) or          *)
(* src/グラフ2.py (script 2): load -> clean -> scatter -> theory -> fit ->  *)
(* axes -> save -> open.  Both scripts define the same names, so the       *)
(* definitions that differ carry the script number as a suffix.            *)
(* PLOT_THEORY and PLOT_FIT are True in both scripts, so the theory and    *)
(* the fit block always run.  Of a plotted series the model keeps the name *)
(* and the x positions; the fitted coefficients are not computed.          *)
(***************************************************************************)
EXTENDS Integers, Sequences, FiniteSets, TLC

(* ------------------------------------------------------------------ *)
(* Bounds of the model                                                *)
(* ------------------------------------------------------------------ *)
\* rows of the spreadsheet
MaxRows == 2
\* points of np.linspace for the theory curve (the script asks for 200)
TheoryNum == 3
\* points of np.linspace for the fit curve (the script asks for 100)
FitNum == 3
\* fixed-point resolution used for np.exp and the values derived from it
SCALE == 10 ^ 3

(* ------------------------------------------------------------------ *)
(* Floating-point values: NaN, +/-infinity, or the rational n/d       *)
(* ------------------------------------------------------------------ *)
Fin(n) == [k |-> "fin", n |-> n, d |-> 1]
Rat(n, d) == [k |-> "fin", n |-> n, d |-> d]
NaN == [k |-> "nan", n |-> 0, d |-> 1]
PInf == [k |-> "inf", n |-> 1, d |-> 1]
NInf == [k |-> "inf", n |-> -1, d |-> 1]

IsNaN(a) == a.k = "nan"
IsFinite(a) == a.k = "fin"

\* a < b as IEEE-754 compares: false as soon as one side is NaN
Lt(a, b) ==
    CASE IsNaN(a) \/ IsNaN(b) -> FALSE
      [] a.k = "inf" /\ b.k = "inf" -> a.n < b.n
      [] a.k = "inf" -> a.n < 0
      [] b.k = "inf" -> b.n > 0
      [] OTHER -> a.n * b.d < b.n * a.d

Gt(a, b) == Lt(b, a)
Le(a, b) == ~IsNaN(a) /\ ~IsNaN(b) /\ ~Lt(b, a)
NumEq(a, b) == Le(a, b) /\ Le(b, a)
Zero == Fin(0)

(* ------------------------------------------------------------------ *)
(* The spreadsheet                                                    *)
(* ------------------------------------------------------------------ *)
X_COL == "X_COL"
Y1_COL == "Y1_COL"
Y2_COL == "Y2_COL"
Cols == {X_COL, Y1_COL, Y2_COL}

\* the values a cell takes: one of each kind the scripts tell apart, and two
\* positive x so that rows can be told apart by value
XVals == {NaN, PInf, NInf, Fin(-1), Fin(0), Fin(1), Fin(2)}
YVals == {NaN, PInf, NInf, Fin(0), Fin(1)}
IsOdd(a) == ~(IsFinite(a) /\ a.n > 0)
OddCells(r) ==
    (IF IsOdd(r[X_COL]) THEN 1 ELSE 0) + (IF IsOdd(r[Y1_COL]) THEN 1 ELSE 0)
        + (IF IsOdd(r[Y2_COL]) THEN 1 ELSE 0)

\* the rows of a sheet: at most one cell of a row is not a positive number
Rows == {r \in [Cols -> XVals \cup YVals] :
            /\ r[X_COL] \in XVals /\ r[Y1_COL] \in YVals /\ r[Y2_COL] \in YVals
            /\ OddCells(r) <= 1}

Sheets == UNION {[1..n -> Rows] : n \in 0..MaxRows}

\* what pd.read_excel finds on disk
Files ==
    {[readable |-> TRUE, columns |-> Cols, rows |-> s] : s \in Sheets}
        \cup {[readable |-> TRUE, columns |-> c, rows |-> <<>>] : c \in (SUBSET Cols) \ {Cols}}
        \cup {[readable |-> FALSE, columns |-> {}, rows |-> <<>>]}

VARIABLES
    script,     \* 1: グラフ1.py, 2: グラフ2.py
    file,       \* the spreadsheet DATA_FILE
    pc,         \* position in the script
    error,      \* the exception that ended the run, or "none"
    x_data, y1_data, y2_data,   \* pandas Series: sequences of [idx, val]
    mask,       \* boolean Series of the validity filter
    t, y1_theory, y2_theory,    \* theory curve
    t_fit,      \* x positions of the fit curve
    ax,         \* the series drawn on the chart
    log,        \* messages printed
    saved,      \* the PNG has been written
    opened      \* the openers tried, with what became of each

vars == <<script, file, pc, error, x_data, y1_data, y2_data, mask, t,
          y1_theory, y2_theory, t_fit, ax, log, saved, opened>>

Init ==
    /\ script \in {1, 2}
    /\ file \in Files
    /\ pc = "load"
    /\ error = "none"
    /\ x_data = <<>> /\ y1_data = <<>> /\ y2_data = <<>>
    /\ mask = <<>>
    /\ t = <<>> /\ y1_theory = <<>> /\ y2_theory = <<>>
    /\ t_fit = <<>>
    /\ ax = {}
    /\ log = {}
    /\ saved = FALSE
    /\ opened = <<>>

(* ------------------------------------------------------------------ *)
(* Loader                                                             *)
(* ------------------------------------------------------------------ *)
\* df[col].copy(): the column as a Series, indexed by row number
Column(rows, col) == [i \in 1..Len(rows) |-> [idx |-> i, val |-> rows[i][col]]]

Abort(e) ==
    /\ pc' = "aborted"
    /\ error' = e

\* a loader that goes on with empty columns when the load fails
Load_recovers ==
    /\ pc = "load"
    /\ x_data' = IF Cols \subseteq file.columns THEN Column(file.rows, X_COL) ELSE <<>>
    /\ y1_data' = IF Cols \subseteq file.columns THEN Column(file.rows, Y1_COL) ELSE <<>>
    /\ y2_data' = IF Cols \subseteq file.columns THEN Column(file.rows, Y2_COL) ELSE <<>>
    /\ pc' = "clean"
    /\ UNCHANGED <<script, file, error, mask, t, y1_theory, y2_theory, t_fit, ax,
                   log, saved, opened>>

Load ==
    /\ pc = "load"
    /\ IF ~file.readable
         THEN /\ Abort("FileNotFoundError")
              /\ UNCHANGED <<x_data, y1_data, y2_data>>
         ELSE IF ~(Cols \subseteq file.columns)
         THEN /\ Abort("KeyError")
              /\ UNCHANGED <<x_data, y1_data, y2_data>>
         ELSE /\ x_data' = Column(file.rows, X_COL)
              /\ y1_data' = Column(file.rows, Y1_COL)
              /\ y2_data' = Column(file.rows, Y2_COL)
              /\ pc' = "clean"
              /\ UNCHANGED error
    /\ UNCHANGED <<script, file, mask, t, y1_theory, y2_theory, t_fit, ax, log,
                   saved, opened>>

\* mask1 without the test of the second y column
mask1_noY2(x, y1, y2) == (~IsNaN(x)) /\ (~IsNaN(y1))

\* mask of グラフ1.py, one row
mask1(x, y1, y2) == (~IsNaN(x)) /\ (~IsNaN(y1)) /\ (~IsNaN(y2))

\* mask2 whose sign test accepts zero
mask2_nonNegative(x, y1, y2) ==
    ~Lt(x, Zero) /\ ~Lt(y1, Zero) /\ ~Lt(y2, Zero)
        /\ (~IsNaN(x)) /\ (~IsNaN(y1)) /\ (~IsNaN(y2))

\* mask of グラフ2.py, one row
mask2(x, y1, y2) ==
    Gt(x, Zero) /\ Gt(y1, Zero) /\ Gt(y2, Zero)
        /\ (~IsNaN(x)) /\ (~IsNaN(y1)) /\ (~IsNaN(y2))

\* a filter that also drops the Series' own non-finite entries
RECURSIVE ApplyMask_ownValidity(_, _)
ApplyMask_ownValidity(series, m) ==
    IF series = <<>> THEN <<>>
    ELSE IF Head(m) /\ IsFinite(Head(series).val)
      THEN <<Head(series)>> \o ApplyMask_ownValidity(Tail(series), Tail(m))
    ELSE ApplyMask_ownValidity(Tail(series), Tail(m))

\* series[mask]: the entries whose mask is True, in the Series' order
RECURSIVE ApplyMask(_, _)
ApplyMask(series, m) ==
    IF series = <<>> THEN <<>>
    ELSE IF Head(m) THEN <<Head(series)>> \o ApplyMask(Tail(series), Tail(m))
    ELSE ApplyMask(Tail(series), Tail(m))

Clean ==
    /\ pc = "clean"
    /\ LET m == [i \in 1..Len(x_data) |->
                    IF script = 1
                      THEN mask1(x_data[i].val, y1_data[i].val, y2_data[i].val)
                      ELSE mask2(x_data[i].val, y1_data[i].val, y2_data[i].val)]
       IN /\ mask' = m
          /\ x_data' = ApplyMask(x_data, m)
          /\ y1_data' = ApplyMask(y1_data, m)
          /\ y2_data' = ApplyMask(y2_data, m)
    /\ pc' = "scatter"
    /\ UNCHANGED <<script, file, error, t, y1_theory, y2_theory, t_fit, ax, log,
                   saved, opened>>

(* ------------------------------------------------------------------ *)
(* Scatter                                                            *)
(* ------------------------------------------------------------------ *)
Vals(series) == [i \in 1..Len(series) |-> series[i].val]

\* a plotted series: its name in PLOT_STYLES and its x positions
Series(name, xs) == [series |-> name, xs |-> xs]

Scatter ==
    /\ pc = "scatter"
    /\ ax' = ax \cup {Series("data1", Vals(x_data)), Series("data2", Vals(x_data))}
    /\ pc' = "theory"
    /\ UNCHANGED <<script, file, error, x_data, y1_data, y2_data, mask, t,
                   y1_theory, y2_theory, t_fit, log, saved, opened>>

(* ------------------------------------------------------------------ *)
(* numpy helpers                                                      *)
(* ------------------------------------------------------------------ *)
\* Python's max(): the first largest element; ValueError on an empty Series
RECURSIVE MaxFrom(_, _)
MaxFrom(best, rest) ==
    IF rest = <<>> THEN best
    ELSE MaxFrom(IF Gt(Head(rest), best) THEN Head(rest) ELSE best, Tail(rest))

max(series) == MaxFrom(Head(Vals(series)), Tail(Vals(series)))

\* np.linspace(0, stop, num): step = stop/(num-1), y = arange(num)*step + 0,
\* y[-1] = stop.  With an infinite stop, 0*inf makes the first point NaN.
linspace(stop, num) ==
    [i \in 1..num |->
        IF i = num THEN stop
        ELSE IF IsFinite(stop) THEN Rat((i - 1) * stop.n, (num - 1) * stop.d)
        ELSE IF i = 1 THEN NaN
        ELSE stop]

Abs(n) == IF n < 0 THEN -n ELSE n

\* sum of the Taylor terms SCALE * (a/b)^k / k!, each term cut to an integer,
\* with alternating signs when the exponent is negative
RECURSIVE ExpSeries(_, _, _, _, _, _, _)
ExpSeries(term, k, a, b, acc, sgn, alt) ==
    IF term = 0 THEN acc
    ELSE ExpSeries((term * a) \div (b * (k + 1)), k + 1, a, b,
                   acc + sgn * term, sgn * alt, alt)

\* np.exp of a float, to SCALE resolution
exp(v) ==
    CASE IsNaN(v) -> NaN
      [] v = PInf -> PInf
      [] v = NInf -> Zero
      [] OTHER -> Rat(ExpSeries(SCALE, 0, Abs(v.n), v.d, 0, 1,
                                IF v.n < 0 THEN -1 ELSE 1), SCALE)

\* -x / c for a positive constant c
NegDiv(v, c) ==
    CASE IsNaN(v) -> NaN
      [] v.k = "inf" -> [v EXCEPT !.n = -v.n]
      [] OTHER -> Rat(-v.n, v.d * c)

\* c * v for an integer constant c
Scale(c, v) ==
    CASE IsNaN(v) -> NaN
      [] v.k = "inf" -> IF c = 0 THEN NaN ELSE IF c < 0 THEN [v EXCEPT !.n = -v.n] ELSE v
      [] OTHER -> Rat(c * v.n, v.d)

\* c + v for an integer constant c
Shift(c, v) ==
    CASE IsNaN(v) -> NaN
      [] v.k = "inf" -> v
      [] OTHER -> Rat(c * v.d + v.n, v.d)

(* ------------------------------------------------------------------ *)
(* Theory evaluator of グラフ1.py                                     *)
(* ------------------------------------------------------------------ *)
PARAM_A1 == 50
PARAM_B1 == 25
PARAM_C1 == 15
PARAM_D1 == 25

\* the relaxation with the two temperatures exchanged
relax_swapped(tt, tau) ==
    Shift(PARAM_B1, Scale(PARAM_A1 - PARAM_B1, exp(NegDiv(tt, tau))))

\* T(t) = PARAM_A + (PARAM_B - PARAM_A) * exp(-t / tau)
relax(tt, tau) == Shift(PARAM_A1, Scale(PARAM_B1 - PARAM_A1, exp(NegDiv(tt, tau))))

calc_theory1(x) ==
    [y1 |-> [i \in 1..Len(x) |-> relax(x[i], PARAM_C1)],
     y2 |-> [i \in 1..Len(x) |-> relax(x[i], PARAM_D1)]]

(* ------------------------------------------------------------------ *)
(* Theory evaluator of グラフ2.py, in exact arithmetic: a decimal      *)
(* n * 10^e, and a value c * pi^p / sqrt(1 + q * pi^2)                 *)
(* ------------------------------------------------------------------ *)
RECURSIVE Norm(_)
Norm(a) ==
    IF a.n = 0 THEN [n |-> 0, e |-> 0]
    ELSE IF a.n % 10 = 0 THEN Norm([n |-> a.n \div 10, e |-> a.e + 1])
    ELSE a

Dec(n, e) == Norm([n |-> n, e |-> e])
DecMul(a, b) == Dec(a.n * b.n, a.e + b.e)
Sym(c, p, q) == [k |-> "fin", c |-> c, p |-> p, q |-> q]
SymNaN == [k |-> "nan", c |-> Dec(0, 0), p |-> 0, q |-> Dec(0, 0)]

\* PARAM_A = 2 * np.pi: the coefficient of pi
PARAM_A2 == Dec(2, 0)
\* PARAM_B = 10 ** -6
PARAM_B2 == Dec(1, -6)
\* PARAM_C = 10 ** -3
PARAM_C2 == Dec(1, -3)

\* omega = PARAM_A * f, as the coefficient of pi
omega(f) == DecMul(PARAM_A2, Dec(f.n, 0))

\* denominator = sqrt(1 + PARAM_B * omega**2): the q of sqrt(1 + q*pi^2)
denominator(f) == DecMul(PARAM_B2, DecMul(omega(f), omega(f)))

theory2_y1(f) ==
    CASE IsFinite(f) -> Sym(Dec(1, 0), 0, denominator(f))
      [] OTHER -> Sym(Dec(0, 0), 0, Dec(0, 0))

theory2_y2(f) ==
    CASE IsFinite(f) -> Sym(DecMul(PARAM_C2, omega(f)), 1, denominator(f))
      [] OTHER -> SymNaN

calc_theory2(x) ==
    [y1 |-> [i \in 1..Len(x) |-> theory2_y1(x[i])],
     y2 |-> [i \in 1..Len(x) |-> theory2_y2(x[i])]]

Theory ==
    /\ pc = "theory"
    /\ IF script = 1
         THEN IF x_data = <<>>
                THEN /\ Abort("ValueError")
                     /\ UNCHANGED <<t, y1_theory, y2_theory, ax>>
                ELSE LET tt == linspace(max(x_data), TheoryNum)
                         th == calc_theory1(tt)
                     IN /\ t' = tt
                        /\ y1_theory' = th.y1
                        /\ y2_theory' = th.y2
                        /\ ax' = ax \cup {Series("theory1", tt), Series("theory2", tt)}
                        /\ pc' = "fit"
                        /\ UNCHANGED error
         ELSE LET th == calc_theory2(Vals(x_data))
              IN /\ y1_theory' = th.y1
                 /\ y2_theory' = th.y2
                 /\ ax' = ax \cup {Series("theory1", Vals(x_data)),
                                   Series("theory2", Vals(x_data))}
                 /\ pc' = "fit"
                 /\ UNCHANGED <<t, error>>
    /\ UNCHANGED <<script, file, x_data, y1_data, y2_data, mask, t_fit, log,
                   saved, opened>>

(* ------------------------------------------------------------------ *)
(* Fitter                                                             *)
(* ------------------------------------------------------------------ *)
\* np.log10: the logarithm of a positive number is kept as an expression
log10(v) ==
    CASE IsNaN(v) -> NaN
      [] v = PInf -> PInf
      [] v = NInf -> NaN
      [] v.n = 0 -> NInf
      [] v.n < 0 -> NaN
      [] OTHER -> [k |-> "fin", log10 |-> v]

\* how the least-squares solver behind np.polyfit treats a non-finite value
\* in the matrix built from x (lhs) and in y (rhs): it either reports that
\* the SVD did not converge (TRUE, a LinAlgError) or returns NaN coefficients
LapackBuilds == [lhs : BOOLEAN, rhs : BOOLEAN]

\* np.polyfit: TypeError on an empty x; a rank-deficient system (fewer points
\* than coefficients) only warns; non-finite input raises as the build does
polyfit(x, y, lapack) ==
    IF Len(x) = 0 THEN "raise"
    ELSE IF lapack.lhs /\ \E i \in 1..Len(x) : ~IsFinite(x[i]) THEN "raise"
    ELSE IF lapack.rhs /\ \E i \in 1..Len(y) : ~IsFinite(y[i]) THEN "raise"
    ELSE "ok"

\* what each script hands to np.polyfit: the data, or its log10
FitInput(series) ==
    IF script = 1 THEN Vals(series)
    ELSE [i \in 1..Len(series) |-> log10(series[i].val)]

\* the fit of either script drawn from 0 to max(x)
FitX_fromZero == linspace(max(x_data), FitNum)

\* x positions of the fit curve
FitX == IF script = 1 THEN linspace(max(x_data), FitNum) ELSE Vals(x_data)

\* the try block: fit and plot channel 1, then fit and plot channel 2; the
\* except clause prints the error and skips what is left of the block
Fit ==
    /\ pc = "fit"
    /\ \E lapack \in LapackBuilds :
          IF polyfit(FitInput(x_data), FitInput(y1_data), lapack) = "raise"
            THEN /\ log' = log \cup {"fit_error"}
                 /\ UNCHANGED <<ax, t_fit>>
            ELSE /\ t_fit' = IF script = 1 THEN FitX ELSE t_fit
                 /\ IF polyfit(FitInput(x_data), FitInput(y2_data), lapack) = "raise"
                      THEN /\ ax' = ax \cup {Series("fit1", FitX)}
                           /\ log' = log \cup {"fit_error"}
                      ELSE /\ ax' = ax \cup {Series("fit1", FitX), Series("fit2", FitX)}
                           /\ UNCHANGED log
    /\ pc' = "axes"
    /\ UNCHANGED <<script, file, error, x_data, y1_data, y2_data, mask, t,
                   y1_theory, y2_theory, saved, opened>>

(* ------------------------------------------------------------------ *)
(* Renderer / exporter                                                *)
(* ------------------------------------------------------------------ *)
Axes ==
    /\ pc = "axes"
    /\ pc' = "save"
    /\ UNCHANGED <<script, file, error, x_data, y1_data, y2_data, mask, t,
                   y1_theory, y2_theory, t_fit, ax, log, saved, opened>>

Save ==
    /\ pc = "save"
    /\ saved' = TRUE
    /\ pc' = "open"
    /\ UNCHANGED <<script, file, error, x_data, y1_data, y2_data, mask, t,
                   y1_theory, y2_theory, t_fit, ax, log, opened>>

\* subprocess.run without check=True: "ok" the command ran and exited 0,
\* "nonzero" it ran and exited with a failure status (no exception),
\* "nolaunch" it could not be started (OSError)
Outcomes == {"ok", "nonzero", "nolaunch"}

run(cmd, o) == Append(opened, [cmd |-> cmd, outcome |-> o])
raised(o) == o = "nolaunch"

OpenMac ==
    /\ pc = "open"
    /\ \E o \in Outcomes :
          /\ opened' = run("open", o)
          /\ pc' = IF raised(o) THEN "start" ELSE "done"
    /\ UNCHANGED <<script, file, error, x_data, y1_data, y2_data, mask, t,
                   y1_theory, y2_theory, t_fit, ax, log, saved>>

OpenWindows ==
    /\ pc = "start"
    /\ \E o \in Outcomes :
          /\ opened' = run("start", o)
          /\ pc' = IF raised(o) THEN "xdg-open" ELSE "done"
    /\ UNCHANGED <<script, file, error, x_data, y1_data, y2_data, mask, t,
                   y1_theory, y2_theory, t_fit, ax, log, saved>>

OpenLinux ==
    /\ pc = "xdg-open"
    /\ \E o \in Outcomes :
          /\ opened' = run("xdg-open", o)
          /\ log' = IF raised(o) THEN log \cup {"saved_at_output_path"} ELSE log
    /\ pc' = "done"
    /\ UNCHANGED <<script, file, error, x_data, y1_data, y2_data, mask, t,
                   y1_theory, y2_theory, t_fit, ax, saved>>

Next ==
    \/ Load
    \/ Clean
    \/ Scatter
    \/ Theory
    \/ Fit
    \/ Axes
    \/ Save
    \/ OpenMac
    \/ OpenWindows
    \/ OpenLinux

Spec == Init /\ [][Next]_vars

(* ------------------------------------------------------------------ *)
(* Properties                                                         *)
(* ------------------------------------------------------------------ *)
LoadFailed == ~file.readable \/ ~(Cols \subseteq file.columns)
Cleaned == ~LoadFailed /\ pc \notin {"load", "clean"}
AfterSave == pc \in {"open", "start", "xdg-open", "done"}
Kept == {x_data[i].idx : i \in 1..Len(x_data)}
AllData == {x_data, y1_data, y2_data}
FitSeries == {s \in ax : s.series \in {"fit1", "fit2"}}
RowCells(i) == {file.rows[i][c] : c \in Cols}

RECURSIVE MinFrom(_, _)
MinFrom(best, rest) ==
    IF rest = <<>> THEN best
    ELSE MinFrom(IF Lt(Head(rest), best) THEN Head(rest) ELSE best, Tail(rest))

min(series) == MinFrom(Head(Vals(series)), Tail(Vals(series)))
Between(lo, p, hi) == Le(lo, p) /\ Le(p, hi)

\* C1 as stated: after the validity filter no cleaned sequence of either
\* script holds a non-finite value (NaN, +infinity or -infinity).
C1_NoNonFinite ==
    Cleaned => \A s \in AllData : \A i \in 1..Len(s) : IsFinite(s[i].val)

\* C1 amended: after the validity filter no cleaned sequence of either
\* script holds a NaN (an infinity is kept by script 1, +infinity by script 2).
C1_NoNaN ==
    Cleaned => \A s \in AllData : \A i \in 1..Len(s) : ~IsNaN(s[i].val)

C1_NaNRowDropped ==
    /\ Cleaned
    /\ \E i \in 1..Len(file.rows) : NaN \in RowCells(i) /\ i \notin Kept
    /\ Kept # {}

\* C2: the cleaned x, y1 and y2 have equal length, their i-th elements come
\* from the same spreadsheet row and carry that row's values, and the kept
\* rows stay in their original order.
C2_Aligned ==
    Cleaned =>
        /\ Len(x_data) = Len(y1_data) /\ Len(y1_data) = Len(y2_data)
        /\ \A i \in 1..Len(x_data) :
              /\ i <= Len(y1_data) /\ i <= Len(y2_data)
              /\ y1_data[i].idx = x_data[i].idx
              /\ y2_data[i].idx = x_data[i].idx
              /\ x_data[i].val = file.rows[x_data[i].idx][X_COL]
              /\ y1_data[i].val = file.rows[x_data[i].idx][Y1_COL]
              /\ y2_data[i].val = file.rows[x_data[i].idx][Y2_COL]
        /\ \A i, j \in 1..Len(x_data) : i < j => x_data[i].idx < x_data[j].idx

C2_RowDroppedBeforeKept ==
    /\ Cleaned
    /\ Len(file.rows) = 2
    /\ Kept = {2}

\* C3: in script 2 every value kept in the cleaned x, y1 and y2 is strictly
\* positive, so log10 in the fitter only sees values above zero, and a row
\* with a zero or negative cell is dropped from all three sequences.
C3_Positive ==
    (script = 2 /\ Cleaned) =>
        /\ \A s \in AllData : \A i \in 1..Len(s) : Gt(s[i].val, Zero)
        /\ \A i \in 1..Len(file.rows) :
              (\E c \in RowCells(i) : Le(c, Zero)) =>
                  \A s \in AllData : \A j \in 1..Len(s) : s[j].idx # i

C3_NonPositiveRowDropped ==
    /\ script = 2
    /\ pc = "fit"
    /\ Kept # {}
    /\ \E i \in 1..Len(file.rows) :
          i \notin Kept /\ \E c \in RowCells(i) : IsFinite(c) /\ Le(c, Zero)

\* C4 as stated: when a fit computation fails, for the first or the second
\* channel, the failure is logged and no fit series at all is on the chart.
C4_NoFitSeriesAfterFailure ==
    "fit_error" \in log => FitSeries = {}

\* C5 as stated: with a cleaned sample set of fewer than 3 distinct points
\* (an empty one included) no exception ends the run before the save step,
\* and the image is saved with the scatter series and without a fit series.
C5_DegenerateRunSaves ==
    (Cleaned /\ Cardinality({x_data[i].val : i \in 1..Len(x_data)}) < 3) =>
        /\ error = "none"
        /\ pc # "aborted"
        /\ AfterSave =>
              /\ saved
              /\ \E s \in ax : s.series = "data1"
              /\ \E s \in ax : s.series = "data2"
              /\ FitSeries = {}

Failed(i) == opened[i].outcome # "ok"

\* C6 as stated: the openers are tried in the order open, start, xdg-open,
\* each later one whenever the previous one failed to open the file (not
\* launched, or run and failed); when all three fail the message with the
\* output path is printed; no opener failure aborts the run.
C6_OpenersFallBack ==
    pc = "done" =>
        /\ error = "none"
        /\ Len(opened) >= 1 /\ opened[1].cmd = "open"
        /\ Failed(1) => (Len(opened) >= 2 /\ opened[2].cmd = "start")
        /\ (Len(opened) >= 2 /\ Failed(2)) =>
              (Len(opened) >= 3 /\ opened[3].cmd = "xdg-open")
        /\ (Len(opened) >= 3 /\ Failed(3)) => "saved_at_output_path" \in log

\* C7: when the spreadsheet cannot be read or a required column is absent,
\* the run aborts in the load stage: no series is drawn, no image is written
\* and no opener is tried.
C7_LoadFailureAborts ==
    LoadFailed =>
        /\ pc \in {"load", "aborted"}
        /\ pc = "aborted" => error \in {"FileNotFoundError", "KeyError"}
        /\ ax = {}
        /\ ~saved
        /\ opened = <<>>
        /\ x_data = <<>> /\ y1_data = <<>> /\ y2_data = <<>>

C7_AbortedInLoad ==
    /\ pc = "aborted"
    /\ error = "KeyError"
    /\ file.readable

\* (omega*RC)^2 and K*omega*RC, with RC = PARAM_B and K = PARAM_C
OmegaRC(f) == DecMul(omega(f), PARAM_B2)

\* C8 as stated: for every frequency f script 2's calc_theory returns
\* G1 = 1/sqrt(1+(omega*RC)^2) and G2 = K*omega*RC/sqrt(1+(omega*RC)^2).
C8_MatchesFormula ==
    (script = 2 /\ y1_theory # <<>>) =>
        \A i \in 1..Len(x_data) :
            IsFinite(x_data[i].val) =>
                /\ y1_theory[i] =
                      Sym(Dec(1, 0), 0, DecMul(OmegaRC(x_data[i].val), OmegaRC(x_data[i].val)))
                /\ y2_theory[i] =
                      Sym(DecMul(PARAM_C2, OmegaRC(x_data[i].val)), 1,
                          DecMul(OmegaRC(x_data[i].val), OmegaRC(x_data[i].val)))

\* |y - c| <= |z - c| for finite y, z and an integer c
Closer(y, z, c) == Abs(y.n - c * y.d) * z.d <= Abs(z.n - c * z.d) * y.d

\* C9: script 1's calc_theory gives PARAM_B at t = 0 on both channels, gives
\* PARAM_A where the exponential term is 0 (t = +infinity), and between the
\* two its distance to PARAM_A never grows with t, whatever the time constant.
C9_TheoryEndpoints ==
    (script = 1 /\ t # <<>>) =>
        \A y \in {y1_theory, y2_theory} :
            \A i \in 1..Len(t) :
                /\ NumEq(t[i], Zero) => NumEq(y[i], Fin(PARAM_B1))
                /\ t[i] = PInf => NumEq(y[i], Fin(PARAM_A1))
                /\ \A j \in 1..Len(t) :
                      (IsFinite(t[i]) /\ IsFinite(t[j]) /\ Le(Zero, t[i]) /\ Le(t[i], t[j]))
                          => /\ Closer(y[j], y[i], PARAM_A1)
                             /\ Between(Fin(PARAM_B1), y[j], Fin(PARAM_A1))

C9_TheoryRelaxes ==
    /\ script = 1
    /\ t # <<>>
    /\ NumEq(t[1], Zero)
    /\ \E j \in 1..Len(t) :
          /\ IsFinite(t[j]) /\ Gt(t[j], Zero)
          /\ Lt(Fin(PARAM_B1), y1_theory[j]) /\ Lt(y1_theory[j], Fin(PARAM_A1))
          /\ Lt(y2_theory[j], y1_theory[j])

\* C10 as stated: for a non-empty cleaned sample set every x position of
\* the fit curve lies between min(x) and max(x) inclusive, in both scripts
\* (stated for the samples whose x are all finite, where min(x) and max(x)
\* span an observed range).
C10_FitWithinObserved ==
    (x_data # <<>> /\ \A i \in 1..Len(x_data) : IsFinite(x_data[i].val)) =>
        \A s \in FitSeries : \A i \in 1..Len(s.xs) :
            Between(min(x_data), s.xs[i], max(x_data))

\* C10 amended: in script 2 every x position of the fit curve lies between
\* min(x) and max(x); in script 1, for a finite max(x), every position lies
\* between 0 and max(x), the first one being 0 and the last one max(x).
C10_FitRange ==
    x_data # <<>> =>
        \A s \in FitSeries :
            /\ script = 2 =>
                  \A i \in 1..Len(s.xs) : Between(min(x_data), s.xs[i], max(x_data))
            /\ (script = 1 /\ IsFinite(max(x_data))) =>
                  /\ \A i \in 1..Len(s.xs) :
                        \/ Between(Zero, s.xs[i], max(x_data))
                        \/ Between(max(x_data), s.xs[i], Zero)
                  /\ NumEq(s.xs[1], Zero)
                  /\ NumEq(s.xs[Len(s.xs)], max(x_data))

C10_FitDrawnFromZero ==
    /\ script = 1
    /\ x_data # <<>>
    /\ Gt(min(x_data), Zero)
    /\ IsFinite(max(x_data))
    /\ \E s \in FitSeries : NumEq(s.xs[1], Zero)
====
